---- MODULE Spec2Model ----
(***************************************************************************)
(* Model of src/bootstrap/format.rs: the rustfmt driver of bootstrap.      *)
(* format() builds an override rule set, walks the tree in parallel,       *)
(* sends the files found through a bounded channel to a dispatcher thread  *)
(* that batches them, spawns one rustfmt process per batch and keeps a     *)
(* bounded pool of running processes.                                      *)
(***************************************************************************)
EXTENDS Integers, Sequences, FiniteSets, Bags, TLC

(***************************************************************************)
(* Bounds of the model and constants of the program.                       *)
(***************************************************************************)
\* jobs ranges over 1..MaxJobs
MaxJobs == 2
\* number of files of directory a/ in the large tree (walked with jobs = 1)
NumFiles == 9
\* number of files of directory a/ in the middle tree (walked with any jobs)
NumFilesMid == 5
\* files of the one directory of the wide tree: more than the channel holds
NumFilesWide == 145
\* runs of format() over one build directory
MaxRuns == 2

\* std::sync::mpsc::sync_channel(128)
ChannelCap == 128
\* rx.try_iter().take(7)
DrainMax == 7
\* build.jobs() as usize * 2
JobsFactor == 2

\* an absent string (a missing file, a failed query, an Err)
None == "none"
\* Option of a sequence: NoSeq is None, Some(s) holds s
NoSeq == << >>
Some(s) == << s >>

(***************************************************************************)
(* Paths are sequences of components; a text (a line of git output, a glob *)
(* line) is a sequence of tokens: components, "/" separators, a "!" prefix.*)
(***************************************************************************)
FileNames ==
    << "f01.rs", "f02.rs", "f03.rs", "f04.rs", "f05.rs", "f06.rs", "f07.rs",
       "f08.rs", "f09.rs", "f10.rs", "f11.rs", "f12.rs" >>

\* the names of the files of the wide tree
WideNames == [ i \in 1..NumFilesWide |-> "w" \o ToString(i) \o ".rs" ]

RsNames == { FileNames[i] : i \in 1..Len(FileNames) }
             \cup { WideNames[i] : i \in 1..NumFilesWide }
             \cup { "foo.rs", "lib.rs", "tmp.rs", "link.rs" }

\* Path::extension of a file name
Extension(name) ==
    IF name \in RsNames THEN "rs"
    ELSE IF name = "README.md" THEN "md"
    ELSE None

Last(s) == s[Len(s)]
Front(s) == SubSeq(s, 1, Len(s) - 1)

RECURSIVE SplitPath(_)
\* the components of a text, its separators dropped
SplitPath(t) ==
    IF Len(t) = 0 THEN << >>
    ELSE IF t[1] = "/" THEN SplitPath(Tail(t))
    ELSE << t[1] >> \o SplitPath(Tail(t))

Range(s) == { s[i] : i \in 1..Len(s) }

RECURSIVE BagOfSeq(_)
\* the bag of the elements of a sequence
BagOfSeq(s) ==
    IF Len(s) = 0 THEN EmptyBag ELSE SetToBag({ s[1] }) (+) BagOfSeq(Tail(s))

(***************************************************************************)
(* The file system under build.src: each directory's entries in readdir    *)
(* order.                                                                  *)
(***************************************************************************)
File(n) == [name |-> n, kind |-> "file"]
DirEnt(n) == [name |-> n, kind |-> "dir"]
Symlink(n) == [name |-> n, kind |-> "symlink"]

\* a tree of one directory a/ of n files
FlatTree(n) ==
    [ d \in { << >>, << "a" >> } |->
        IF d = << >> THEN << DirEnt("a") >>
        ELSE [ i \in 1..n |-> File(FileNames[i]) ] ]

SmallTree ==
    [ d \in { << >>, << "pkg" >>, << "scratch" >> } |->
        IF d = << >>
        THEN << File("foo.rs"), File("README.md"), Symlink("link.rs"),
                DirEnt("pkg"), DirEnt("scratch") >>
        ELSE IF d = << "pkg" >>
             THEN << File("foo.rs"), File("lib.rs") >>
             ELSE << File("tmp.rs") >> ]

\* a tree of one directory a/ of NumFilesWide files
WideTree ==
    [ d \in { << >>, << "a" >> } |->
        IF d = << >> THEN << DirEnt("a") >>
        ELSE [ i \in 1..NumFilesWide |-> File(WideNames[i]) ] ]

Tree(t) ==
    IF t = "wide" THEN WideTree
    ELSE IF t = "big" THEN FlatTree(NumFiles)
    ELSE IF t = "mid" THEN FlatTree(NumFilesMid)
    ELSE SmallTree

\* every entry of the tree t, with its path from the root
AllEntries(t) ==
    UNION { { [path |-> d \o << Tree(t)[d][i].name >>, kind |-> Tree(t)[d][i].kind] :
                i \in 1..Len(Tree(t)[d]) } : d \in DOMAIN Tree(t) }

(***************************************************************************)
(* The override rule set (ignore::overrides): a glob line is parsed as a   *)
(* gitignore line with the meaning of "!" inverted; the last glob that     *)
(* matches a path decides.                                                 *)
(***************************************************************************)
\* OverrideBuilder::add(line)
ParseGlob(line) ==
    LET negated  == Len(line) > 0 /\ line[1] = "!"
        r1       == IF negated THEN Tail(line) ELSE line
        absolute == Len(r1) > 0 /\ r1[1] = "/"
        r2       == IF absolute THEN Tail(r1) ELSE r1
        dirOnly  == Len(r2) > 0 /\ Last(r2) = "/"
        r3       == IF dirOnly THEN Front(r2) ELSE r2
    IN  [ ignore   |-> negated,
          anchored |-> absolute \/ "/" \in Range(r3),
          dir_only |-> dirOnly,
          comps    |-> SplitPath(r3) ]

\* whether glob g matches the entry at path (relative to the root)
GlobMatches(g, path, isDir) ==
    /\ g.dir_only => isDir
    /\ Len(g.comps) > 0
    /\ IF g.anchored THEN path = g.comps
       ELSE Len(path) > 0 /\ Last(path) = g.comps[1]

NumWhitelists(ov) == Cardinality({ i \in 1..Len(ov) : ~ov[i].ignore })

Max(S) == CHOOSE x \in S : \A y \in S : y <= x

\* Override::matched: "ignore", "whitelist" or "none"
OverrideMatched(ov, path, isDir) ==
    IF Len(ov) = 0 THEN None
    ELSE LET hits == { i \in 1..Len(ov) : GlobMatches(ov[i], path, isDir) }
         IN  IF hits # {}
             THEN IF ov[Max(hits)].ignore THEN "ignore" ELSE "whitelist"
             ELSE IF NumWhitelists(ov) > 0 /\ ~isDir THEN "ignore" ELSE None

\* Types::matched with the "rust" type selected
TypesMatched(path, isDir) ==
    IF isDir THEN None
    ELSE IF Extension(Last(path)) = "rs" THEN "whitelist" ELSE "ignore"

\* the walker's should_skip_entry: overrides have precedence over types
ShouldSkip(ov, path, isDir) ==
    LET m == OverrideMatched(ov, path, isDir)
    IN  IF m # None THEN m = "ignore"
        ELSE TypesMatched(path, isDir) = "ignore"

(***************************************************************************)
(* State.                                                                  *)
(***************************************************************************)
VARIABLES
    build,        \* Builder: dry_run, jobs, rustfmt (initial_rustfmt is Some), tree,
                  \* and hangs: whether the formatter's processes never exit
    check,        \* format's check argument
    paths,        \* format's paths argument: the explicit roots
    config,       \* rustfmt.toml: whether it exists, and its ignore list
    git,          \* git: avail, in_tree, status (porcelain lines), remotes, diff
    query,        \* outcome of `rustfmt --version`: spawned, success, stdout
    stamp,        \* contents of build.out/rustfmt.stamp, None when absent
    pc,           \* position of format() on the main thread
    outcome,      \* "running", "returned" (normal return) or "exit1" (detail_exit(1))
    overrides,    \* ignore_fmt: the parsed override globs, in the order added
    cache_valid,  \* verify_rustfmt_version: "valid", "stale", or "uncalled"
    modified,     \* result of get_modified_rs_files, NoSeq when None or not called
    work,         \* the walker's directories in progress: [dir, next]
    chan,         \* the sync_channel's buffer
    sent,         \* every path a walker's visitor has sent
    dpc,          \* position of the dispatcher thread
    first,        \* the path of the blocking rx.recv()
    more,         \* the paths of rx.try_iter().take(7) so far
    idx,          \* the poll pass's index i (1-based), 0 outside a pass
    children,     \* the VecDeque of children: process numbers, front first
    awaiting,     \* the child popped by pop_front and being waited for, 0 if none
    procs,        \* every process spawned: its paths (until it has been waited
                  \* for), its status and the number of completed waits
    dispatched,   \* the bag of all paths given to a spawned process
    stamp_writes, \* number of writes of the stamp file by this run
    runs,         \* the number of this run of format() over the build directory
    full_runs     \* the formatter versions with which an earlier run returned
                  \* normally after a discovery of the full tree

vars == << build, check, paths, config, git, query, stamp, pc, outcome, overrides,
           cache_valid, modified, work, chan, sent, dpc, first, more, idx,
           children, awaiting, procs, dispatched, stamp_writes, runs, full_runs >>

envVars == << build, check, paths, config, git, query, runs, full_runs >>
selVars == << overrides, cache_valid, modified >>
walkVars == << work, chan, sent >>
dispVars == << dpc, first, more, idx, children, awaiting, procs, dispatched >>

(***************************************************************************)
(* The version stamp.                                                      *)
(***************************************************************************)
\* get_rustfmt_version whose failed query still yields its output
get_rustfmt_version_unchecked(b, q) ==
    IF ~b.rustfmt THEN None
    ELSE IF ~q.spawned THEN None
    ELSE q.stdout

\* get_rustfmt_version: the version string, or None
get_rustfmt_version(b, q) ==
    IF ~b.rustfmt THEN None
    ELSE IF ~q.spawned THEN None
    ELSE IF ~q.success THEN None
    ELSE q.stdout

\* util::program_out_of_date(stamp, key)
program_out_of_date(st, key) ==
    IF st = None THEN TRUE ELSE st # key

\* verify_rustfmt_version: whether the format cache can be reused
verify_rustfmt_version(b, q, st) ==
    LET version == get_rustfmt_version(b, q)
    IN  IF version = None THEN FALSE
        ELSE ~program_out_of_date(st, version)

(***************************************************************************)
(* The modified files since the merge base.                                *)
(***************************************************************************)
HasRustLang(piece) == piece \in { "com/rust-lang/rust", "rust-lang" }

\* get_rust_lang_rust_remote over the lines of `git config --get-regex`, each
\* line given by its pieces between '.': the remote's name, or None (Err)
get_rust_lang_rust_remote(g) ==
    IF ~g.remotes.success THEN None
    ELSE LET lines == g.remotes.lines
             hits  == { i \in 1..Len(lines) :
                          \E k \in 1..Len(lines[i]) : HasRustLang(lines[i][k]) }
         IN  IF hits = {} THEN None
             ELSE LET line == lines[CHOOSE i \in hits : \A j \in hits : i <= j]
                  IN  IF Len(line) < 2 THEN None ELSE line[2]

RECURSIVE RsLines(_)
\* .filter(|f| Path::new(f).extension() == "rs")
RsLines(lines) ==
    IF Len(lines) = 0 THEN << >>
    ELSE LET comps == SplitPath(lines[1])
             keep  == Len(comps) > 0 /\ Extension(Last(comps)) = "rs"
         IN  (IF keep THEN << lines[1] >> ELSE << >>) \o RsLines(Tail(lines))

\* get_modified_rs_files that trusts the stamp without verifying it
get_modified_rs_files_unverified(b, g, q, st) ==
    IF get_rust_lang_rust_remote(g) = None THEN NoSeq
    ELSE Some(RsLines(g.diff))

\* get_modified_rs_files: NoSeq (None) if all files should be formatted
get_modified_rs_files(b, g, q, st) ==
    IF get_rust_lang_rust_remote(g) = None THEN NoSeq
    ELSE IF ~verify_rustfmt_version(b, q, st) THEN NoSeq
    ELSE Some(RsLines(g.diff))

(***************************************************************************)
(* The rule set built by format().                                         *)
(***************************************************************************)
\* for ignore in rustfmt_config.ignore: add("!{ignore}")
IgnoreGlobs(cfg) == [ i \in 1..Len(cfg) |-> ParseGlob(<< "!" >> \o cfg[i]) ]

RECURSIVE UntrackedPaths(_)
\* the lines starting with "??", each reduced to its path
UntrackedPaths(status) ==
    IF Len(status) = 0 THEN << >>
    ELSE (IF status[1].code = "??" THEN << status[1].path >> ELSE << >>)
         \o UntrackedPaths(Tail(status))

\* add("!{untracked_path}"): the exclude without its leading slash
UntrackedGlobUnanchored(p) == ParseGlob(<< "!" >> \o p)

\* add("!/{untracked_path}")
UntrackedGlob(p) == ParseGlob(<< "!", "/" >> \o p)

UntrackedGlobs(status) ==
    LET u == UntrackedPaths(status)
    IN  [ i \in 1..Len(u) |-> UntrackedGlob(u[i]) ]

\* add("/{file}")
ModifiedGlobs(files) == [ i \in 1..Len(files) |-> ParseGlob(<< "/" >> \o files[i]) ]

\* whether format() asks for the modified files
FastPathAsked(chk, ps) == ~chk /\ Len(ps) = 0

\* ignore_fmt as built by format() (lines 153-212)
RuleSet(b, chk, ps, cfg, g, q, st) ==
    IgnoreGlobs(cfg.ignore) \o
    ( IF g.avail /\ g.in_tree
      THEN UntrackedGlobs(g.status) \o
           ( IF FastPathAsked(chk, ps) /\ get_modified_rs_files(b, g, q, st) # NoSeq
             THEN ModifiedGlobs(get_modified_rs_files(b, g, q, st)[1])
             ELSE << >> )
      ELSE << >> )

(***************************************************************************)
(* Initial states: the environment of one run of format().                 *)
(***************************************************************************)
NoGit ==
    [ avail |-> FALSE, in_tree |-> FALSE, status |-> << >>,
      remotes |-> [success |-> FALSE, lines |-> << >>], diff |-> << >> ]

OriginLine == << "remote", "origin", "url https://github", "com/me/rust" >>
UpstreamLine == << "remote", "upstream", "url https://github", "com/rust-lang/rust" >>

RemoteOutputs ==
    { [success |-> FALSE, lines |-> << >>],
      [success |-> TRUE, lines |-> << OriginLine >>],
      [success |-> TRUE, lines |-> << OriginLine, UpstreamLine >>] }

StatusOutputs ==
    { << >>,
      << [code |-> "??", path |-> << "foo.rs" >>],
         [code |-> " M", path |-> << "pkg", "/", "lib.rs" >>] >> }

DiffOutputs ==
    { << >>,
      << << "pkg", "/", "lib.rs" >>, << "README.md" >> >> }

IgnoreLists ==
    { << >>, << << "lib.rs" >> >>, << << "pkg", "/" >> >> }

GitStates ==
    { NoGit, [NoGit EXCEPT !.avail = TRUE] } \cup
    { [ avail |-> TRUE, in_tree |-> TRUE, status |-> st, remotes |-> r, diff |-> d ] :
        st \in StatusOutputs, r \in RemoteOutputs, d \in DiffOutputs }

Versions == { "v1", "v2" }

Queries ==
    { [spawned |-> FALSE, success |-> FALSE, stdout |-> ""] } \cup
    { [spawned |-> TRUE, success |-> ok, stdout |-> v] : ok \in BOOLEAN, v \in Versions }

Stamps == { None, "v1" }

\* the runs of the large and middle trees: every file is dispatched
InitDispatch ==
    /\ build \in { [dry_run |-> FALSE, jobs |-> 1, rustfmt |-> TRUE, hangs |-> FALSE,
                   tree |-> "big"] }
                \cup { [dry_run |-> FALSE, jobs |-> j, rustfmt |-> TRUE, hangs |-> FALSE,
                       tree |-> "mid"] :
                         j \in 1..MaxJobs }
    /\ check = FALSE
    /\ paths = << >>
    /\ config = [exists |-> TRUE, ignore |-> << >>]
    /\ git = NoGit
    /\ query = [spawned |-> TRUE, success |-> TRUE, stdout |-> "v1"]
    /\ stamp = None

\* the runs that return before any rule is built
InitEarly ==
    /\ build \in { [dry_run |-> d, jobs |-> 1, rustfmt |-> r, hangs |-> FALSE,
                      tree |-> "small"] : d, r \in BOOLEAN }
    /\ check \in BOOLEAN
    /\ paths = << >>
    /\ config \in { [exists |-> e, ignore |-> << >>] : e \in BOOLEAN }
    /\ build.dry_run \/ ~config.exists
    /\ git = NoGit
    /\ query = [spawned |-> TRUE, success |-> TRUE, stdout |-> "v1"]
    /\ stamp = None

\* whether the run reaches verify_rustfmt_version
ReachesVerify ==
    /\ git.avail /\ git.in_tree
    /\ FastPathAsked(check, paths)
    /\ get_rust_lang_rust_remote(git) # None

\* the runs of the small tree: the rule set's inputs vary
InitSelect ==
    /\ build \in { [dry_run |-> FALSE, jobs |-> 1, rustfmt |-> r, hangs |-> FALSE,
                      tree |-> "small"] : r \in BOOLEAN }
    /\ check \in BOOLEAN
    /\ paths \in { << >>, << << "pkg" >> >> }
    /\ config \in { [exists |-> TRUE, ignore |-> i] : i \in IgnoreLists }
    /\ git \in GitStates
    /\ query \in Queries
    /\ stamp \in Stamps
    /\ \/ ReachesVerify
       \/ /\ query.spawned /\ query.stdout = "v2"
          /\ stamp = (IF query.success THEN "v1" ELSE None)

\* the run of the wide tree, with a formatter that does not exit: the
\* dispatcher ends up waiting and the walker fills the channel
InitWide ==
    /\ build = [dry_run |-> FALSE, jobs |-> 1, rustfmt |-> TRUE, hangs |-> TRUE,
                tree |-> "wide"]
    /\ check = FALSE
    /\ paths = << >>
    /\ config = [exists |-> TRUE, ignore |-> << >>]
    /\ git = NoGit
    /\ query = [spawned |-> TRUE, success |-> TRUE, stdout |-> "v1"]
    /\ stamp = None

Init ==
    /\ InitDispatch \/ InitEarly \/ InitSelect \/ InitWide
    /\ pc = "start"
    /\ outcome = "running"
    /\ overrides = << >>
    /\ cache_valid = "uncalled"
    /\ modified = NoSeq
    /\ work = {}
    /\ chan = << >>
    /\ sent = {}
    /\ dpc = "unspawned"
    /\ first = << >>
    /\ more = << >>
    /\ idx = 0
    /\ children = << >>
    /\ awaiting = 0
    /\ procs = << >>
    /\ dispatched = EmptyBag
    /\ stamp_writes = 0
    /\ runs = 1
    /\ full_runs = (IF stamp = None THEN {} ELSE { stamp })

(***************************************************************************)
(* format() on the main thread.                                            *)
(***************************************************************************)
\* if build.config.dry_run() { return; }
DryRunReturn ==
    /\ pc = "start" /\ outcome = "running"
    /\ build.dry_run
    /\ pc' = "done"
    /\ outcome' = "returned"
    /\ UNCHANGED << envVars, stamp, selVars, walkVars, dispVars, stamp_writes >>

\* a missing rustfmt.toml treated as fatal
ConfigMissingExit ==
    /\ pc = "start" /\ outcome = "running"
    /\ ~build.dry_run
    /\ ~config.exists
    /\ pc' = "done"
    /\ outcome' = "exit1"
    /\ UNCHANGED << envVars, stamp, selVars, walkVars, dispVars, stamp_writes >>

\* if !rustfmt_config.exists() { ...; return; }
ConfigMissingReturn ==
    /\ pc = "start" /\ outcome = "running"
    /\ ~build.dry_run
    /\ ~config.exists
    /\ pc' = "done"
    /\ outcome' = "returned"
    /\ UNCHANGED << envVars, stamp, selVars, walkVars, dispVars, stamp_writes >>

\* lines 151-212: the ignore list, the untracked paths, the modified files
BuildRuleSet ==
    /\ pc = "start" /\ outcome = "running"
    /\ ~build.dry_run
    /\ config.exists
    /\ overrides' = RuleSet(build, check, paths, config, git, query, stamp)
    /\ cache_valid' =
         IF ReachesVerify
         THEN (IF verify_rustfmt_version(build, query, stamp) THEN "valid" ELSE "stale")
         ELSE "uncalled"
    /\ modified' =
         IF git.avail /\ git.in_tree /\ FastPathAsked(check, paths)
         THEN get_modified_rs_files(build, git, query, stamp)
         ELSE NoSeq
    /\ pc' = "tool"
    /\ UNCHANGED << envVars, stamp, outcome, walkVars, dispVars, stamp_writes >>

\* build.initial_rustfmt().unwrap_or_else(|| { ...; detail_exit(1) })
RustfmtMissingExit ==
    /\ pc = "tool" /\ outcome = "running"
    /\ ~build.rustfmt
    /\ outcome' = "exit1"
    /\ UNCHANGED << envVars, stamp, pc, selVars, walkVars, dispVars, stamp_writes >>

\* the roots of the walk: the explicit paths, or build.src
Roots(ps) == IF Len(ps) = 0 THEN { << >> } ELSE Range(ps)

\* lines 219-240: the channel, the walker, the dispatcher thread
StartWalk ==
    /\ pc = "tool" /\ outcome = "running"
    /\ build.rustfmt
    /\ work' = { [dir |-> r, next |-> 1] : r \in Roots(paths) }
    /\ chan' = << >>
    /\ dpc' = "recv"
    /\ pc' = "walk"
    /\ UNCHANGED << envVars, stamp, outcome, selVars, sent, first, more, idx,
                    children, awaiting, procs, dispatched, stamp_writes >>

\* the work left of w once its entry w.next is done
Advance(w, t) ==
    IF w.next < Len(Tree(t)[w.dir]) THEN { [w EXCEPT !.next = w.next + 1] } ELSE {}

\* a visitor whose send still enqueues when the buffer holds 128 paths
WalkStepOverfull(w) ==
    /\ pc = "walk" /\ outcome = "running"
    /\ w \in work
    /\ LET e     == Tree(build.tree)[w.dir][w.next]
           path  == w.dir \o << e.name >>
           isDir == e.kind = "dir"
           rest  == (work \ {w}) \cup Advance(w, build.tree)
       IN  IF ShouldSkip(overrides, path, isDir)
           THEN /\ work' = rest
                /\ UNCHANGED << chan, sent >>
           ELSE IF isDir
           THEN /\ work' = rest \cup { [dir |-> path, next |-> 1] }
                /\ UNCHANGED << chan, sent >>
           ELSE IF e.kind = "file"
           THEN /\ Len(chan) <= ChannelCap
                /\ chan' = Append(chan, path)
                /\ sent' = sent \cup { path }
                /\ work' = rest
           ELSE /\ work' = rest
                /\ UNCHANGED << chan, sent >>
    /\ UNCHANGED << envVars, stamp, pc, outcome, selVars, dispVars, stamp_writes >>

\* one entry of one directory: skipped, descended into, or given to the
\* visitor, which sends it if it is a regular file (blocking while full)
WalkStep(w) ==
    /\ pc = "walk" /\ outcome = "running"
    /\ w \in work
    /\ LET e     == Tree(build.tree)[w.dir][w.next]
           path  == w.dir \o << e.name >>
           isDir == e.kind = "dir"
           rest  == (work \ {w}) \cup Advance(w, build.tree)
       IN  IF ShouldSkip(overrides, path, isDir)
           THEN /\ work' = rest
                /\ UNCHANGED << chan, sent >>
           ELSE IF isDir
           THEN /\ work' = rest \cup { [dir |-> path, next |-> 1] }
                /\ UNCHANGED << chan, sent >>
           ELSE IF e.kind = "file"
           THEN /\ Len(chan) < ChannelCap
                /\ chan' = Append(chan, path)
                /\ sent' = sent \cup { path }
                /\ work' = rest
           ELSE /\ work' = rest
                /\ UNCHANGED << chan, sent >>
    /\ UNCHANGED << envVars, stamp, pc, outcome, selVars, dispVars, stamp_writes >>

\* walker.run returns; drop(tx)
DropTx ==
    /\ pc = "walk" /\ outcome = "running"
    /\ work = {}
    /\ pc' = "join"
    /\ UNCHANGED << envVars, stamp, outcome, selVars, walkVars, dispVars, stamp_writes >>

\* update_rustfmt_version: the stamp after the call
update_rustfmt_version(b, q, st) ==
    IF get_rustfmt_version(b, q) = None THEN st ELSE get_rustfmt_version(b, q)

\* thread.join(); if !check { update_rustfmt_version(build); }
JoinAndStamp ==
    /\ pc = "join" /\ outcome = "running"
    /\ dpc = "done"
    /\ IF ~check
       THEN /\ stamp' = update_rustfmt_version(build, query, stamp)
            /\ stamp_writes' =
                 IF get_rustfmt_version(build, query) = None
                 THEN stamp_writes ELSE stamp_writes + 1
       ELSE UNCHANGED << stamp, stamp_writes >>
    /\ pc' = "done"
    /\ outcome' = "returned"
    /\ UNCHANGED << envVars, selVars, walkVars, dispVars >>

(***************************************************************************)
(* The formatter processes and the closure rustfmt() returns.              *)
(***************************************************************************)
\* a spawned rustfmt exits, with success or not (a formatter that hangs
\* never does)
ProcExit(p, st) ==
    /\ outcome = "running"
    /\ ~build.hangs
    /\ p \in 1..Len(procs)
    /\ procs[p].status = "running"
    /\ procs' = [procs EXCEPT ![p].status = st]
    /\ UNCHANGED << envVars, stamp, pc, outcome, selVars, walkVars, dpc, first, more,
                    idx, children, awaiting, dispatched, stamp_writes >>

\* cmd.try_wait() is Ok(Some(_)): the process has exited
Exited(p) == procs[p].status # "running"

\* the closure that checks the status of a blocking wait only
ChildFailedIfBlocking(st, block) == block /\ st = "fail"

\* !status.success() after cmd.wait(), in a blocking or a polling call
ChildFailed(st, block) == st = "fail"

\* procs after the closure of child p got past cmd.wait(): the Child is gone
Waited(p) == [procs EXCEPT ![p].waits = procs[p].waits + 1, ![p].paths = << >>]

(***************************************************************************)
(* The dispatcher thread (lines 240-267).                                  *)
(***************************************************************************)
MaxProcesses(b) == b.jobs * JobsFactor

\* a capacity check that lets the pool reach max_processes + 1
CapacityReachedStrict(n, max) == n > max

\* children.len() >= max_processes
CapacityReached(n, max) == n >= max

\* a drain that takes one path too many
DrainContinuesEight(taken, buffered) == taken < DrainMax + 1 /\ buffered > 0

\* a drain that stops one path early
DrainContinuesSix(taken, buffered) == taken < DrainMax - 1 /\ buffered > 0

\* rx.try_iter().take(7): whether the iterator yields another path
DrainContinues(taken, buffered) == taken < DrainMax /\ buffered > 0

\* a batch that forgets the path of the blocking receive
BatchWithoutFirst(f, m) == m

\* .chain(std::iter::once(path)).collect()
Batch(f, m) == m \o << f >>

\* a removal that pops the back instead of the element at i
RemoveBackOnly(s, i) == Front(s)

\* a removal that drops the element at i and everything behind it
TruncateAt(s, i) == SubSeq(s, 1, i - 1)

\* VecDeque::swap_remove_back(i), i counted from 1: the back takes i's place
SwapRemoveBack(s, i) ==
    IF i = Len(s) THEN Front(s) ELSE [Front(s) EXCEPT ![i] = Last(s)]

\* while let Ok(path) = rx.recv(): a path is buffered
Recv ==
    /\ dpc = "recv" /\ outcome = "running"
    /\ Len(chan) > 0
    /\ first' = Head(chan)
    /\ chan' = Tail(chan)
    /\ more' = << >>
    /\ dpc' = "drain"
    /\ UNCHANGED << envVars, stamp, pc, outcome, selVars, work, sent, idx, children,
                    awaiting, procs, dispatched, stamp_writes >>

\* a dispatcher that spawns one more, empty, batch when the channel closes
RecvClosedSpawns ==
    /\ dpc = "recv" /\ outcome = "running"
    /\ Len(chan) = 0
    /\ pc = "join"
    /\ dpc' = "final"
    /\ procs' = Append(procs, [paths |-> << >>, status |-> "running", waits |-> 0])
    /\ children' = Append(children, Len(procs) + 1)
    /\ UNCHANGED << envVars, stamp, pc, outcome, selVars, walkVars, first, more, idx,
                    awaiting, dispatched, stamp_writes >>

\* a run that keeps tx until format returns: the closure would be seen only
\* after the return
RecvClosedAfterReturn ==
    /\ dpc = "recv" /\ outcome = "running"
    /\ Len(chan) = 0
    /\ pc = "done"
    /\ dpc' = "final"
    /\ UNCHANGED << envVars, stamp, pc, outcome, selVars, walkVars, first, more, idx,
                    children, awaiting, procs, dispatched, stamp_writes >>

\* rx.recv() is Err: the buffer is empty and every sender is dropped
RecvClosed ==
    /\ dpc = "recv" /\ outcome = "running"
    /\ Len(chan) = 0
    /\ pc = "join"
    /\ dpc' = "final"
    /\ UNCHANGED << envVars, stamp, pc, outcome, selVars, walkVars, first, more, idx,
                    children, awaiting, procs, dispatched, stamp_writes >>

\* one try_recv of rx.try_iter().take(7) that yields a path
DrainOne ==
    /\ dpc = "drain" /\ outcome = "running"
    /\ DrainContinues(Len(more), Len(chan))
    /\ more' = Append(more, Head(chan))
    /\ chan' = Tail(chan)
    /\ UNCHANGED << envVars, stamp, pc, outcome, selVars, work, sent, dpc, first, idx,
                    children, awaiting, procs, dispatched, stamp_writes >>

\* the iterator ends; rustfmt() spawns the batch; children.push_back(child)
SpawnBatch ==
    /\ dpc = "drain" /\ outcome = "running"
    /\ ~DrainContinues(Len(more), Len(chan))
    /\ procs' = Append(procs, [paths |-> Batch(first, more), status |-> "running",
                               waits |-> 0])
    /\ dispatched' = dispatched (+) BagOfSeq(Batch(first, more))
    /\ children' = Append(children, Len(procs) + 1)
    /\ idx' = Len(children) + 1
    /\ first' = << >>
    /\ more' = << >>
    /\ dpc' = "poll"
    /\ UNCHANGED << envVars, stamp, pc, outcome, selVars, walkVars, awaiting,
                    stamp_writes >>

\* the end of the poll pass with the pool ch: at capacity the front is popped
\* and waited for, else the loop receives again
AfterPoll(ch) ==
    /\ idx' = 0
    /\ IF CapacityReached(Len(ch), MaxProcesses(build))
       THEN /\ awaiting' = Head(ch)
            /\ children' = Tail(ch)
            /\ dpc' = "wait"
       ELSE /\ awaiting' = awaiting
            /\ children' = ch
            /\ dpc' = "recv"

\* children[i](false) in the poll pass, i from the back to the front
PollStep ==
    /\ dpc = "poll" /\ outcome = "running"
    /\ idx >= 1
    /\ LET p == children[idx]
       IN  IF ~Exited(p)
           THEN /\ IF idx = 1
                   THEN AfterPoll(children)
                   ELSE /\ idx' = idx - 1
                        /\ UNCHANGED << children, awaiting, dpc >>
                /\ UNCHANGED << procs, outcome >>
           ELSE IF ChildFailed(procs[p].status, FALSE)
           THEN /\ outcome' = "exit1"
                /\ procs' = Waited(p)
                /\ UNCHANGED << idx, children, awaiting, dpc >>
           ELSE /\ procs' = Waited(p)
                /\ AfterPoll(SwapRemoveBack(children, idx))
                /\ UNCHANGED outcome
    /\ UNCHANGED << envVars, stamp, pc, selVars, walkVars, first, more, dispatched,
                    stamp_writes >>

\* children.pop_front().unwrap()(true): the popped child has exited
BlockingWait ==
    /\ dpc = "wait" /\ outcome = "running"
    /\ Exited(awaiting)
    /\ procs' = Waited(awaiting)
    /\ IF ChildFailed(procs[awaiting].status, TRUE)
       THEN /\ outcome' = "exit1"
            /\ UNCHANGED << dpc, awaiting >>
       ELSE /\ dpc' = "recv"
            /\ awaiting' = 0
            /\ UNCHANGED outcome
    /\ UNCHANGED << envVars, stamp, pc, selVars, walkVars, first, more, idx, children,
                    dispatched, stamp_writes >>

\* for mut child in children { child(true); }: the next child has exited
FinalWait ==
    /\ dpc = "final" /\ outcome = "running"
    /\ Len(children) > 0
    /\ Exited(Head(children))
    /\ procs' = Waited(Head(children))
    /\ IF ChildFailed(procs[Head(children)].status, TRUE)
       THEN /\ outcome' = "exit1"
            /\ UNCHANGED children
       ELSE /\ children' = Tail(children)
            /\ UNCHANGED outcome
    /\ UNCHANGED << envVars, stamp, pc, selVars, walkVars, dpc, first, more, idx,
                    awaiting, dispatched, stamp_writes >>

\* the thread's closure returns
DispatcherReturn ==
    /\ dpc = "final" /\ outcome = "running"
    /\ Len(children) = 0
    /\ dpc' = "done"
    /\ UNCHANGED << envVars, stamp, pc, outcome, selVars, walkVars, first, more, idx,
                    children, awaiting, procs, dispatched, stamp_writes >>

(***************************************************************************)
(* The specification.                                                      *)
(***************************************************************************)
Next ==
    \/ DryRunReturn
    \/ ConfigMissingReturn
    \/ BuildRuleSet
    \/ RustfmtMissingExit
    \/ StartWalk
    \/ \E w \in work : WalkStep(w)
    \/ DropTx
    \/ JoinAndStamp
    \/ \E p \in 1..Len(procs) : \E st \in { "ok", "fail" } : ProcExit(p, st)
    \/ Recv
    \/ RecvClosed
    \/ DrainOne
    \/ SpawnBatch
    \/ PollStep
    \/ BlockingWait
    \/ FinalWait
    \/ DispatcherReturn

Spec == Init /\ [][Next]_vars

\* the steps of format() on the main thread
MainStep ==
    \/ DryRunReturn
    \/ ConfigMissingReturn
    \/ BuildRuleSet
    \/ RustfmtMissingExit
    \/ StartWalk
    \/ DropTx
    \/ JoinAndStamp

\* the steps of the walker's threads
WalkerStep == \E w \in work : WalkStep(w)

\* the steps of the dispatcher thread
DispatcherStep ==
    \/ Recv
    \/ RecvClosed
    \/ DrainOne
    \/ SpawnBatch
    \/ PollStep
    \/ BlockingWait
    \/ FinalWait
    \/ DispatcherReturn

\* the exit of some running process
SomeProcExit == \E p \in 1..Len(procs) : \E st \in { "ok", "fail" } : ProcExit(p, st)

\* every thread that can run does run, and a process that can exit does
Fairness ==
    /\ WF_vars(MainStep)
    /\ WF_vars(WalkerStep)
    /\ WF_vars(DispatcherStep)
    /\ WF_vars(SomeProcExit)

FairSpec == Spec /\ Fairness

(***************************************************************************)
(* Several runs of format() over one build directory: the stamp file is    *)
(* what a run leaves to the next one.                                      *)
(***************************************************************************)
\* the run that ended returned normally after walking the whole tree under
\* the source root, with no allow-list in its rule set
FullTreeRun ==
    /\ outcome = "returned"
    /\ dpc = "done"
    /\ Len(paths) = 0
    /\ NumWhitelists(overrides) = 0

\* format() is called again, with another mode, other paths and maybe
\* another formatter; build.out/rustfmt.stamp is as the last run left it
NewRun ==
    /\ outcome \in { "returned", "exit1" }
    /\ runs < MaxRuns
    /\ runs' = runs + 1
    /\ full_runs' =
         IF FullTreeRun /\ get_rustfmt_version(build, query) # None
         THEN full_runs \cup { get_rustfmt_version(build, query) }
         ELSE full_runs
    /\ build' = [dry_run |-> FALSE, jobs |-> 1, rustfmt |-> TRUE, hangs |-> FALSE,
                 tree |-> "small"]
    /\ check' \in BOOLEAN
    /\ paths' \in { << >>, << << "pkg" >> >> }
    /\ config' = [exists |-> TRUE, ignore |-> << >>]
    /\ git' = NoGit
    /\ query' \in { [spawned |-> TRUE, success |-> TRUE, stdout |-> v] : v \in Versions }
    /\ pc' = "start"
    /\ outcome' = "running"
    /\ overrides' = << >>
    /\ cache_valid' = "uncalled"
    /\ modified' = NoSeq
    /\ work' = {}
    /\ chan' = << >>
    /\ sent' = {}
    /\ dpc' = "unspawned"
    /\ first' = << >>
    /\ more' = << >>
    /\ idx' = 0
    /\ children' = << >>
    /\ awaiting' = 0
    /\ procs' = << >>
    /\ dispatched' = EmptyBag
    /\ stamp_writes' = 0
    /\ UNCHANGED stamp

NextRuns ==
    \/ Next
    \/ NewRun

SpecRuns == Init /\ [][NextRuns]_vars

(***************************************************************************)
(* Properties.                                                             *)
(***************************************************************************)
FailedProcs == { p \in 1..Len(procs) : procs[p].status = "fail" }

\* the processes spawned and not yet waited for by the dispatcher
Outstanding == Len(children) + (IF awaiting # 0 THEN 1 ELSE 0)

\* C1: with max_processes >= 1, the dispatcher never holds more than
\* max_processes processes: not after a spawn is pushed, not after the poll
\* pass, not during the capacity-forced wait, not during the final drain.
C1_PoolBounded ==
    MaxProcesses(build) >= 1 => Outstanding <= MaxProcesses(build)

\* C1 witness: a spawn has just been pushed and the pool is at max_processes.
C1_PoolFull ==
    dpc = "poll" /\ Len(children) = MaxProcesses(build) /\ idx = Len(children)

\* C2: every batch handed to a spawned formatter process holds between 1 and
\* 8 paths.
C2_BatchSize ==
    \A p \in 1..Len(procs) :
        procs[p].waits = 0 => Len(procs[p].paths) >= 1 /\ Len(procs[p].paths) <= 8

\* C2 witness: a process was spawned over a batch of 8 paths, and another one
\* over a single path.
C2_FullBatch ==
    \E p, r \in 1..Len(procs) :
        /\ procs[p].waits = 0 /\ Len(procs[p].paths) = 8
        /\ procs[r].waits = 0 /\ Len(procs[r].paths) = 1

\* C3: a run in which a spawned process exited without success never returns
\* normally, and once the dispatcher has seen the failed status the run has
\* ended with exit code 1.
C3_FailureIsFatal ==
    /\ outcome = "returned" => FailedProcs = {}
    /\ \A p \in FailedProcs : procs[p].waits > 0 => outcome = "exit1"

\* C3 witness: a process that failed was polled while an older one was still
\* running, and the run ended with exit code 1.
C3_FailureSeen ==
    /\ outcome = "exit1"
    /\ \E p \in FailedProcs :
         /\ procs[p].waits > 0
         /\ dpc = "poll"
         /\ \E r \in 1..Len(procs) : r < p /\ procs[r].status = "running"

\* C4 (as claimed): the child the capacity-forced wait pops and waits for was
\* spawned before every child still in the pool.
C4_EvictsOldest ==
    (dpc = "wait" /\ awaiting # 0) => \A i \in 1..Len(children) : awaiting < children[i]

\* C5: when format returns normally, and already when the dispatcher thread
\* returns, the pool is empty and every spawned process has been waited for
\* exactly once, with success.
C5_AllAwaited ==
    (outcome = "returned" \/ dpc = "done") =>
        /\ Len(children) = 0
        /\ awaiting = 0
        /\ \A p \in 1..Len(procs) : procs[p].waits = 1 /\ procs[p].status = "ok"

\* C5 witness: a normal return after processes were removed by the poll pass,
\* by the capacity-forced wait or by the final drain.
C5_ReturnedAfterSpawns ==
    outcome = "returned" /\ Len(procs) >= 3

\* C6: no path is ever given to two processes; when the run returns normally
\* every path sent is in exactly one batch, and N paths sent gave at least
\* ceil(N/8) and at most N processes.
C6_EachPathOnce ==
    /\ \A x \in BagToSet(dispatched) : x \in sent /\ CopiesIn(x, dispatched) = 1
    /\ outcome = "returned" =>
         /\ BagToSet(dispatched) = sent
         /\ Len(procs) * 8 >= Cardinality(sent)
         /\ Len(procs) <= Cardinality(sent)

\* C6 witness: a normal return of a run of 9 paths in 2 batches.
C6_NineInTwo ==
    outcome = "returned" /\ Cardinality(sent) = 9 /\ Len(procs) = 2

\* C7 (as claimed): a dry run, a run with explicit paths, a check run and a run
\* in which a process failed do not write the stamp.
C7_StampOnlyAfterFullRun ==
    (build.dry_run \/ Len(paths) > 0 \/ check \/ FailedProcs # {}) => stamp_writes = 0

\* C8: verify_rustfmt_version answers valid exactly when the version query
\* succeeded and its output equals the stamp's contents; a missing stamp, a
\* missing formatter and a failed query answer stale, and format goes on.
C8_ValidIffEqual ==
    (cache_valid # "uncalled" /\ pc # "done") =>
        /\ (cache_valid = "valid") <=>
              ( /\ build.rustfmt /\ query.spawned /\ query.success
                /\ stamp # None /\ stamp = query.stdout )
        /\ (pc = "tool" /\ build.rustfmt) => outcome = "running"

\* C8 witness: the cache was found valid.
C8_FoundValid ==
    cache_valid = "valid" /\ pc = "tool"

\* the exclude globs of the rule set
Excludes == { i \in 1..Len(overrides) : overrides[i].ignore }

KindOf(path) ==
    IF \E e \in AllEntries(build.tree) : e.path = path
    THEN (CHOOSE e \in AllEntries(build.tree) : e.path = path).kind
    ELSE None

\* C9 (as claimed): every dispatched path is a regular file of the selected
\* type that no exclude of the rule set matches.
C9_DispatchedNotExcluded ==
    \A x \in BagToSet(dispatched) :
        /\ KindOf(x) = "file"
        /\ Extension(Last(x)) = "rs"
        /\ \A i \in Excludes : ~GlobMatches(overrides[i], x, FALSE)

\* whether an exclude matches the path or a directory above it
Pruned(path) ==
    \/ \E i \in Excludes : GlobMatches(overrides[i], path, FALSE)
    \/ \E k \in 1..(Len(path) - 1) :
         \E i \in Excludes : GlobMatches(overrides[i], SubSeq(path, 1, k), TRUE)

\* the regular files of the selected type, under the source root, that no
\* exclude prunes
FullTree ==
    { e.path : e \in { f \in AllEntries(build.tree) :
                         /\ f.kind = "file"
                         /\ Extension(Last(f.path)) = "rs"
                         /\ ~Pruned(f.path) } }

\* the fast path is unavailable: no git, no working tree, no rust-lang remote,
\* or a stale cache
FastPathUnavailable ==
    \/ ~git.avail
    \/ ~git.in_tree
    \/ get_rust_lang_rust_remote(git) = None
    \/ cache_valid = "stale"

\* format() got past the construction of the rule set
RulesBuilt == pc # "start" /\ ~build.dry_run /\ config.exists

\* C10: when the fast path is unavailable, or in check mode, or with explicit
\* paths, the rule set holds no allow-list entry; without explicit paths the
\* run then dispatches the full tree under the source root, and it ends with
\* exit code 1 only for a missing formatter or a failed process.
C10_FallbackFullTree ==
    (RulesBuilt /\ (FastPathUnavailable \/ check \/ Len(paths) > 0)) =>
        /\ NumWhitelists(overrides) = 0
        /\ modified = NoSeq
        /\ (outcome = "returned" /\ Len(paths) = 0) => BagToSet(dispatched) = FullTree
        /\ outcome = "exit1" => (~build.rustfmt \/ FailedProcs # {})

\* C10 witness: a fix run without explicit paths found a remote and a stale
\* cache, and returned after dispatching the full tree.
C10_StaleCacheFullTree ==
    /\ cache_valid = "stale"
    /\ Len(git.diff) > 0
    /\ outcome = "returned"
    /\ BagToSet(dispatched) = FullTree
    /\ FullTree # {}

\* the components of an untracked path as git status printed it
UntrackedComps(p) == SplitPath(IF Last(p) = "/" THEN Front(p) ELSE p)

\* whether one of the configured ignore globs matches the path or a
\* directory above it
ConfigPruned(path) ==
    \E i \in 1..Len(config.ignore) :
        \/ GlobMatches(overrides[i], path, FALSE)
        \/ \E k \in 1..(Len(path) - 1) : GlobMatches(overrides[i], SubSeq(path, 1, k), TRUE)

\* C11: the exclude added for an untracked path P is an exclude that matches
\* the entry at exactly the root-relative path P and no entry at another
\* depth with the same basename; a file of the selected type that shares only
\* its basename with an untracked path is still dispatched by a full-tree run.
C11_UntrackedAnchored ==
    (RulesBuilt /\ git.avail /\ git.in_tree) =>
        LET u == UntrackedPaths(git.status)
            n == Len(config.ignore)
        IN  /\ Len(overrides) >= n + Len(u)
            /\ \A k \in 1..Len(u) :
                  /\ overrides[n + k].ignore
                  /\ \A e \in AllEntries(build.tree) :
                        GlobMatches(overrides[n + k], e.path, e.kind = "dir")
                            <=> e.path = UntrackedComps(u[k])
            /\ (outcome = "returned" /\ Len(paths) = 0 /\ NumWhitelists(overrides) = 0) =>
                  \A e \in AllEntries(build.tree) :
                      ( /\ e.kind = "file"
                        /\ Extension(Last(e.path)) = "rs"
                        /\ ~ConfigPruned(e.path)
                        /\ \A k \in 1..Len(u) : e.path # UntrackedComps(u[k]) )
                      => e.path \in BagToSet(dispatched)

\* C11 witness: foo.rs at the root is untracked; the run returned having
\* dispatched pkg/foo.rs and not foo.rs.
C11_SameNameDeeperDispatched ==
    /\ outcome = "returned"
    /\ git.avail /\ git.in_tree
    /\ \E k \in 1..Len(git.status) :
          git.status[k].code = "??" /\ git.status[k].path = << "foo.rs" >>
    /\ << "pkg", "foo.rs" >> \in BagToSet(dispatched)
    /\ << "foo.rs" >> \notin BagToSet(dispatched)

\* C12: in a run whose discovery emits no path, the dispatcher never receives
\* one: it stays in its blocking receive until the senders are dropped, goes
\* to the final drain with an empty pool, no process is ever spawned, the run
\* never ends with exit code 1 and is never stuck, and it ends with a normal
\* return.
C12_NoPathNoProcess ==
    (dpc # "unspawned" /\ sent = {}) =>
        /\ Len(procs) = 0 /\ Len(children) = 0 /\ awaiting = 0
        /\ dispatched = EmptyBag
        /\ dpc \in { "recv", "final", "done" }
        /\ dpc \in { "final", "done" } => pc \in { "join", "done" }
        /\ outcome # "exit1"
        /\ pc = "done" => outcome = "returned"
        /\ outcome = "running" => ENABLED Next

\* C12 witness: the walk of a tree with nothing to format is over, the
\* dispatcher has returned without a spawn, and format returned normally.
C12_ReturnedWithoutPaths ==
    /\ outcome = "returned"
    /\ dpc = "done"
    /\ sent = {}
    /\ Len(procs) = 0

\* C13: when rustfmt.toml is absent (and the run is not a dry run), format
\* returns normally at once: no rule is built, no root is walked, the
\* dispatcher thread is never started, no process is spawned and the stamp is
\* not written, in check mode and in fix mode, with and without a formatter.
C13_NoConfigNoWork ==
    (~build.dry_run /\ ~config.exists) =>
        /\ pc \in { "start", "done" }
        /\ pc = "start" => ENABLED ConfigMissingReturn
        /\ pc = "done" => outcome = "returned"
        /\ outcome # "exit1"
        /\ Len(overrides) = 0 /\ cache_valid = "uncalled"
        /\ work = {} /\ sent = {} /\ Len(chan) = 0
        /\ dpc = "unspawned"
        /\ Len(procs) = 0
        /\ stamp_writes = 0

\* C13 witness: a fix run without rustfmt.toml and without a formatter has
\* returned normally.
C13_ReturnedWithoutFormatter ==
    /\ ~build.dry_run /\ ~config.exists
    /\ ~build.rustfmt /\ ~check
    /\ outcome = "returned"

\* the walker's next entry of w is a regular file that the rule set lets
\* through: the visitor is at tx.send
AtSend(w) ==
    LET e == Tree(build.tree)[w.dir][w.next]
    IN  e.kind = "file" /\ ~ShouldSkip(overrides, w.dir \o << e.name >>, FALSE)

\* C14: the channel never buffers more than 128 paths; a visitor whose send
\* finds 128 paths buffered cannot enqueue, and from such a state no path is
\* sent and the buffer does not grow: the next send happens only after the
\* dispatcher has taken a path out of the buffer.
C14_ChannelBounded ==
    /\ [](/\ Len(chan) <= ChannelCap
          /\ \A w \in work :
                (pc = "walk" /\ AtSend(w) /\ Len(chan) = ChannelCap) => ~ENABLED WalkStep(w))
    /\ [][ Len(chan) = ChannelCap =>
              /\ sent' = sent
              /\ Len(chan') <= Len(chan)
              /\ (Len(chan') = Len(chan) => chan' = chan) ]_vars

\* C14 witness: the buffer holds 128 paths for the second time: a blocked
\* send went through after the dispatcher received, and the visitor is at
\* its next send.
C14_BlockedAgain ==
    /\ pc = "walk"
    /\ Len(chan) = ChannelCap
    /\ Cardinality(sent) > ChannelCap
    /\ \E w \in work : AtSend(w)

\* the run waits for nothing but the exit of the process the dispatcher is
\* blocked on
WaitsForProcess ==
    \/ dpc = "wait" /\ awaiting # 0 /\ procs[awaiting].status = "running"
    \/ dpc = "final" /\ Len(children) > 0 /\ procs[Head(children)].status = "running"

StuckOnFullChannel ==
    /\ outcome = "running" /\ ~ENABLED Next
    /\ Len(chan) = ChannelCap
    /\ \E w \in work : AtSend(w)
    /\ WaitsForProcess

\* C16 (as claimed): a poll pass examines the pool from the most recently
\* spawned process to the least recently spawned one: every entry the pass
\* has already gone by was spawned after the one it examines now, so that an
\* exited process it removes is the most recently spawned of the exited ones.
C16_PollsNewestFirst ==
    (dpc = "poll" /\ idx >= 1) =>
        \A j \in (idx + 1)..Len(children) : children[j] > children[idx]

\* the processes a step takes out of the pool other than by pop_front
PollRemoved == Range(children) \ (Range(children') \cup { awaiting' })

\* C17: the poll pass never blocks: while it is under way its next step can
\* always be taken. A step of the pass removes at most one process from the
\* pool, only one that had exited, after waiting for it once, and that
\* removal ends the pass; every other process stays in the pool (or is the
\* one popped for the capacity-forced wait), and a running one is never
\* removed.
C17_PollRemovesOneExited ==
    /\ []((dpc = "poll" /\ outcome = "running") => ENABLED PollStep)
    /\ [][ dpc = "poll" =>
              /\ Cardinality(PollRemoved) <= 1
              /\ \A p \in PollRemoved :
                    /\ procs[p].status = "ok"
                    /\ procs[p].waits = 0 /\ procs'[p].waits = 1
                    /\ dpc' # "poll"
              /\ \A p \in Range(children) :
                    procs[p].status = "running" =>
                        p \in Range(children') \cup { awaiting' } ]_vars

\* C17 witness: the poll pass removed a process from the middle of the pool
\* and left the others in, one of them at another index.
C17_RemovedFromMiddle ==
    /\ dpc \in { "recv", "wait" }
    /\ \E i \in 1..(Len(children) - 1) : children[i] > children[i + 1]

\* the paths a drain under way has taken or can still take without waiting
Avail == Len(more) + Len(chan)

\* C18: the drain never waits: while it is under way it can always take a
\* buffered path or end. The paths within its reach never get fewer while it
\* runs, and when it ends the batch has 8 paths, or the buffer was empty at
\* that moment and the batch is the received path with every path drained;
\* so 7 or more paths buffered when the drain starts give a batch of 8.
C18_DrainNeverWaits ==
    /\ []((dpc = "drain" /\ outcome = "running") =>
            (ENABLED DrainOne \/ ENABLED SpawnBatch))
    /\ [][ dpc = "drain" =>
              /\ dpc' = "drain" =>
                    /\ Len(more') >= Len(more)
                    /\ Len(more') + Len(chan') >= Avail
              /\ dpc' = "poll" =>
                    LET b == procs'[Len(procs')].paths
                    IN  /\ Len(b) = Len(more) + 1
                        /\ Len(b) <= DrainMax + 1
                        /\ \/ Len(b) = DrainMax + 1
                           \/ Len(chan) = 0 /\ Len(b) = Avail + 1 ]_vars

\* C18 witness: after a batch of 8, a drain that has taken fewer than 7 paths
\* finds the buffer empty while the walker is still at work.
C18_ShortBatchOnEmpty ==
    /\ dpc = "drain"
    /\ pc = "walk"
    /\ Len(more) < DrainMax
    /\ Len(chan) = 0
    /\ \E p \in 1..Len(procs) : Len(procs[p].paths) = DrainMax + 1

\* C19 (as claimed): when get_modified_rs_files answered with a list of
\* changed files, every dispatched path is a file of that list; with an empty
\* list nothing is dispatched.
C19_FastPathSubset ==
    modified # NoSeq =>
        \A x \in BagToSet(dispatched) :
            \E i \in 1..Len(modified[1]) : x = SplitPath(modified[1][i])

\* C20 (as claimed): whenever the stamp equals the installed formatter's
\* version, an earlier run, or the run that has just ended, returned normally
\* after a discovery of the full tree with that version.
C20_StampImpliesFullRun ==
    (stamp # None /\ stamp = get_rustfmt_version(build, query)) =>
        \/ stamp \in full_runs
        \/ FullTreeRun

====
